---- MODULE Spec2Model ----
(***************************************************************************)
(* The log monitor agent (log_monitor_agent/agent.py, tools.py, llm.py):   *)
(* process_log_message threads one state record through the LangGraph      *)
(* workflow  classify -> {diagnose -> assess_severity -> {alert_sre |      *)
(* manage_ticket}} | set_no_action -> END.                                 *)
(*                                                                         *)
(* Text (log_message, diagnosis, prompts' parts, titles) is a sequence of  *)
(* characters / text fragments; the enum-like fields (classification,      *)
(* severity, action_taken) are strings, "" being Python's empty string.    *)
(* The model backend, the tool provider and the environment variables are  *)
(* the environment: their answers are drawn with \E in the actions.        *)
(***************************************************************************)
EXTENDS Naturals, Sequences, FiniteSets, TLC

\* ------------------------------------------------------------------ bounds
\* longest log message submitted
MaxLen == 2
\* number of process_log_message calls made in one behaviour
MaxCalls == 2
\* number of caller threads that exist
NumThreads == 2

Threads == 1..NumThreads

\* ------------------------------------------------------------ input values
\* the characters of log messages; Whitespace are those str.strip() removes
Chars == {" ", "\t", "E"}
Whitespace == {" ", "\t"}
LogMessages == UNION {[1..n -> Chars] : n \in 0..MaxLen}

\* result.content of the diagnosis reply: empty, or some text
DiagnosisTexts == {<<>>, <<"d">>}

\* what llm_with_tools.invoke can do: raise, or return a message (content, and
\* whether it carries tool calls)
DiagnoseReplies ==
  [kind : {"raise"}, content : {<<>>}, tool_calls : {FALSE}]
  \cup [kind : {"message"}, content : DiagnosisTexts, tool_calls : BOOLEAN]

\* os.environ as get_llm reads it
Envs == [USE_LLAMA_STACK : BOOLEAN, OPENAI_API_KEY : BOOLEAN]

None == 0
END == "__end__"

Fields == {"log_message", "classification", "diagnosis", "severity", "action_taken"}
Nodes == {"classify", "set_no_action", "diagnose", "assess_severity",
          "alert_sre", "manage_ticket"}

VARIABLES
  env,             \* os.environ (USE_LLAMA_STACK, OPENAI_API_KEY)
  collaborators,   \* "stub": tools.py's action tools; "production": real ones
  callers,         \* how many threads the caller calls process_log_message from
  ncalls,          \* process_log_message calls made so far
  _workflow,       \* agent.py global: compiled workflow, None before first use
  builds,          \* number of build_workflow() executions
  _mcp_client,     \* tools.py global
  _mcp_tools,      \* tools.py global: the tool cache
  provider_calls,  \* number of _mcp_client.get_tools() calls
  pc,              \* per thread: where its process_log_message call stands
  state,           \* per thread: the run's AgentState
  wf,              \* per thread: the workflow object get_workflow() returned
  mcp,             \* per thread: what get_mcp_tools() gave diagnose_problem
  trace,           \* per thread: the nodes the run has executed, in order
  writes,          \* per thread: how often each field was written by a node
  llm_log,         \* per thread: the model invocations of the run
  calls,           \* per thread: the action-tool calls of the run
  failure          \* per thread: the exception the run propagated, if any

globals == <<env, collaborators, callers, ncalls>>
wfvars == <<_workflow, builds>>
mcpvars == <<_mcp_client, _mcp_tools, provider_calls>>
runvars == <<pc, state, wf, mcp, trace, writes, llm_log, calls, failure>>
vars == <<env, collaborators, callers, ncalls, _workflow, builds, _mcp_client,
          _mcp_tools, provider_calls, pc, state, wf, mcp, trace, writes,
          llm_log, calls, failure>>

\* ------------------------------------------------------------ pure helpers
RECURSIVE lstrip(_)
lstrip(s) == IF s # <<>> /\ Head(s) \in Whitespace THEN lstrip(Tail(s)) ELSE s

RECURSIVE rstrip(_)
rstrip(s) ==
  IF s # <<>> /\ s[Len(s)] \in Whitespace THEN rstrip(SubSeq(s, 1, Len(s) - 1)) ELSE s

\* str.strip()
strip(s) == rstrip(lstrip(s))

\* s[:n]
Prefix(s, n) == SubSeq(s, 1, IF Len(s) < n THEN Len(s) ELSE n)

\* the orchestrator merges a node's partial update into the state
Merge(st, upd) == [f \in DOMAIN st |-> IF f \in DOMAIN upd THEN upd[f] ELSE st[f]]

CountWrites(w, upd) == [f \in DOMAIN w |-> IF f \in DOMAIN upd THEN w[f] + 1 ELSE w[f]]

\* what a node hands back: the partial update it returns, or the exception it
\* raises (raised = where it came from), with the model invocations and the
\* action-tool calls it made on the way
Return(upd, invocations, tcalls) ==
  [raised |-> "", update |-> upd, invocations |-> invocations, calls |-> tcalls]
Raise(origin, invocations, tcalls) ==
  [raised |-> origin, update |-> <<>>, invocations |-> invocations, calls |-> tcalls]

\* one model invocation as the run's log keeps it: the stage that made it,
\* whether tools were bound and guidance was in the prompt, and whether the
\* call raised
Invocation(stage, tools, guidance, result) ==
  [stage |-> stage, tools |-> tools, guidance |-> guidance,
   raised |-> (result = "raise")]

\* ---------------------------------------------------------------- llm.py
get_llm(e) ==
  IF e.USE_LLAMA_STACK THEN "ChatOpenAI"
  ELSE IF ~e.OPENAI_API_KEY THEN "raise"
  ELSE "ChatOpenAI"

\* -------------------------------------------------------------- schemas.py
\* what structured_llm.invoke can do: return a schema-valid object, or raise
\* (backend error, output that fails validation)
LogClassificationSchema == {"error", "warning", "normal"}
SeverityAssessmentSchema == {"high", "low"}

\* --------------------------------------------------------------- tools.py
get_research_tool_guidance == <<"You have access to research tools">>

\* the stub action tools: print and return
send_slack_alert == "ok"
check_existing_github_issue == "False"
create_github_issue == "ok"

\* --------------------------------------------------------------- agent.py
initial_state(log_message) ==
  [log_message |-> log_message, classification |-> "", diagnosis |-> <<>>,
   severity |-> "", action_taken |-> ""]

\* `not log_message or not log_message.strip()`
IsBlank(log_message) == log_message = <<>> \/ strip(log_message) = <<>>

\* classify_log absorbing a raising model call with a default, as
\* assess_severity does
classify_log_default_normal(st, llm, result) ==
  IF IsBlank(st.log_message) THEN Return([classification |-> "normal"], <<>>, <<>>)
  ELSE IF llm = "raise" THEN Raise("get_llm", <<>>, <<>>)
  ELSE LET inv == <<Invocation("classify", FALSE, FALSE, result)>>
       IN IF result = "raise" THEN Return([classification |-> "normal"], inv, <<>>)
          ELSE Return([classification |-> result], inv, <<>>)

\* classify_log handing back the stripped log_message along with the
\* classification
classify_log_rewrites_message(st, llm, result) ==
  IF IsBlank(st.log_message)
    THEN Return([classification |-> "normal", log_message |-> strip(st.log_message)],
                <<>>, <<>>)
  ELSE IF llm = "raise" THEN Raise("get_llm", <<>>, <<>>)
  ELSE LET inv == <<Invocation("classify", FALSE, FALSE, result)>>
       IN IF result = "raise" THEN Raise("invoke", inv, <<>>)
          ELSE Return([classification |-> result,
                       log_message |-> strip(st.log_message)], inv, <<>>)

\* classify_log testing only `not log_message` (no strip)
classify_log_no_strip(st, llm, result) ==
  IF st.log_message = <<>> THEN Return([classification |-> "normal"], <<>>, <<>>)
  ELSE IF llm = "raise" THEN Raise("get_llm", <<>>, <<>>)
  ELSE LET inv == <<Invocation("classify", FALSE, FALSE, result)>>
       IN IF result = "raise" THEN Raise("invoke", inv, <<>>)
          ELSE Return([classification |-> result], inv, <<>>)

classify_log(st, llm, result) ==
  IF IsBlank(st.log_message) THEN Return([classification |-> "normal"], <<>>, <<>>)
  ELSE IF llm = "raise" THEN Raise("get_llm", <<>>, <<>>)
  ELSE LET inv == <<Invocation("classify", FALSE, FALSE, result)>>
       IN IF result = "raise" THEN Raise("invoke", inv, <<>>)
          ELSE Return([classification |-> result], inv, <<>>)

\* should_continue_after_classify with the two branches the wrong way round
should_continue_inverted(st) ==
  IF st.classification \in {"error", "warning"} THEN "end" ELSE "diagnose"

\* should_continue_after_classify continuing on errors only
should_continue_errors_only(st) ==
  IF st.classification = "error" THEN "diagnose" ELSE "end"

should_continue_after_classify(st) ==
  IF st.classification \in {"error", "warning"} THEN "diagnose" ELSE "end"

\* diagnose_problem without the try/except around get_mcp_tools / bind_tools
diagnose_problem_no_except(st, acquired, bind, result) ==
  LET inv == <<Invocation("diagnose", TRUE, TRUE, result.kind)>>
  IN IF ~acquired.ok THEN Raise("get_mcp_tools", <<>>, <<>>)
     ELSE IF bind = "raise" THEN Raise("bind_tools", <<>>, <<>>)
     ELSE IF result.kind = "raise" THEN Raise("invoke", inv, <<>>)
     ELSE Return([diagnosis |-> result.content], inv, <<>>)

\* diagnose_problem from the point where get_mcp_tools() has returned or raised
\* (acquired.ok): bind the tools, build the prompt, invoke the model
diagnose_problem(st, acquired, bind, result) ==
  LET with_tools == acquired.ok /\ bind = "ok"
      tool_guidance == IF with_tools THEN get_research_tool_guidance ELSE <<>>
      inv == <<Invocation("diagnose", with_tools, tool_guidance # <<>>, result.kind)>>
  IN IF result.kind = "raise" THEN Raise("invoke", inv, <<>>)
     ELSE Return([diagnosis |-> result.content], inv, <<>>)

\* assess_severity without the try/except around structured_llm.invoke
assess_severity_no_except(st, llm, result) ==
  IF llm = "raise" THEN Raise("get_llm", <<>>, <<>>)
  ELSE LET inv == <<Invocation("assess_severity", FALSE, FALSE, result)>>
       IN IF result = "raise" THEN Raise("invoke", inv, <<>>)
          ELSE Return([severity |-> result], inv, <<>>)

assess_severity(st, llm, result) ==
  IF llm = "raise" THEN Raise("get_llm", <<>>, <<>>)
  ELSE LET inv == <<Invocation("assess_severity", FALSE, FALSE, result)>>
       IN IF result = "raise" THEN Return([severity |-> "low"], inv, <<>>)
          ELSE Return([severity |-> result], inv, <<>>)

\* route_by_severity with the two branches swapped
route_by_severity_swapped(st) ==
  IF st.severity = "high" THEN "manage_ticket" ELSE "alert_sre"

route_by_severity(st) ==
  IF st.severity = "high" THEN "alert_sre" ELSE "manage_ticket"

\* alert_sre catching a failure of send_slack_alert and going on
alert_sre_swallows_failure(st, send) ==
  LET call == [fn |-> "send_slack_alert",
               message |-> <<"High severity issue detected - ">> \o st.diagnosis,
               severity |-> st.severity, diagnosis |-> st.diagnosis,
               raised |-> (send = "raise")]
  IN Return([action_taken |-> "slack_alert"], <<>>, <<call>>)

\* alert_sre sending the diagnosis alone as the message
alert_sre_bare_message(st, send) ==
  LET call == [fn |-> "send_slack_alert",
               message |-> st.diagnosis,
               severity |-> st.severity, diagnosis |-> st.diagnosis,
               raised |-> (send = "raise")]
  IN IF send = "raise" THEN Raise("send_slack_alert", <<>>, <<call>>)
     ELSE Return([action_taken |-> "slack_alert"], <<>>, <<call>>)

\* alert_sre writing "alert" as the action
alert_sre_writes_alert(st, send) ==
  LET call == [fn |-> "send_slack_alert",
               message |-> <<"High severity issue detected - ">> \o st.diagnosis,
               severity |-> st.severity, diagnosis |-> st.diagnosis,
               raised |-> (send = "raise")]
  IN IF send = "raise" THEN Raise("send_slack_alert", <<>>, <<call>>)
     ELSE Return([action_taken |-> "alert"], <<>>, <<call>>)

alert_sre(st, send) ==
  LET call == [fn |-> "send_slack_alert",
               message |-> <<"High severity issue detected - ">> \o st.diagnosis,
               severity |-> st.severity, diagnosis |-> st.diagnosis,
               raised |-> (send = "raise")]
  IN IF send = "raise" THEN Raise("send_slack_alert", <<>>, <<call>>)
     ELSE Return([action_taken |-> "slack_alert"], <<>>, <<call>>)

TitleLen == 50

\* manage_github_ticket creating the issue whatever the lookup returned
manage_github_ticket_always_creates(st, issue_exists, create) ==
  LET check == [fn |-> "check_existing_github_issue", query |-> st.diagnosis,
                returned |-> issue_exists, raised |-> (issue_exists = "raise")]
      new == [fn |-> "create_github_issue",
              title |-> <<"[Auto] ">> \o Prefix(st.log_message, TitleLen) \o <<"...">>,
              body |-> <<"## Log Message\n">> \o st.log_message
                       \o <<"\n\n## Diagnosis\n">> \o st.diagnosis,
              raised |-> (create = "raise")]
  IN IF issue_exists = "raise" THEN Raise("check_existing_github_issue", <<>>, <<check>>)
     ELSE IF create = "raise" THEN Raise("create_github_issue", <<>>, <<check, new>>)
     ELSE Return([action_taken |-> "github_ticket"], <<>>, <<check, new>>)

\* manage_github_ticket putting the whole log_message in the title
manage_github_ticket_uncut_title(st, issue_exists, create) ==
  LET check == [fn |-> "check_existing_github_issue", query |-> st.diagnosis,
                returned |-> issue_exists, raised |-> (issue_exists = "raise")]
      new == [fn |-> "create_github_issue",
              title |-> <<"[Auto] ">> \o st.log_message \o <<"...">>,
              body |-> <<"## Log Message\n">> \o st.log_message
                       \o <<"\n\n## Diagnosis\n">> \o st.diagnosis,
              raised |-> (create = "raise")]
  IN IF issue_exists = "raise" THEN Raise("check_existing_github_issue", <<>>, <<check>>)
     ELSE IF issue_exists = "False"
       THEN IF create = "raise" THEN Raise("create_github_issue", <<>>, <<check, new>>)
            ELSE Return([action_taken |-> "github_ticket"], <<>>, <<check, new>>)
     ELSE Return([action_taken |-> "github_ticket"], <<>>, <<check>>)

manage_github_ticket(st, issue_exists, create) ==
  LET check == [fn |-> "check_existing_github_issue", query |-> st.diagnosis,
                returned |-> issue_exists, raised |-> (issue_exists = "raise")]
      new == [fn |-> "create_github_issue",
              title |-> <<"[Auto] ">> \o Prefix(st.log_message, TitleLen) \o <<"...">>,
              body |-> <<"## Log Message\n">> \o st.log_message
                       \o <<"\n\n## Diagnosis\n">> \o st.diagnosis,
              raised |-> (create = "raise")]
  IN IF issue_exists = "raise" THEN Raise("check_existing_github_issue", <<>>, <<check>>)
     ELSE IF issue_exists = "False"
       THEN IF create = "raise" THEN Raise("create_github_issue", <<>>, <<check, new>>)
            ELSE Return([action_taken |-> "github_ticket"], <<>>, <<check, new>>)
     ELSE Return([action_taken |-> "github_ticket"], <<>>, <<check>>)

\* set_no_action sending a notification before it returns
set_no_action_notifies(st) ==
  Return([action_taken |-> "none"], <<>>,
         <<[fn |-> "send_slack_alert", message |-> <<"No action">>,
            severity |-> st.severity, diagnosis |-> st.diagnosis, raised |-> FALSE]>>)

set_no_action(st) == Return([action_taken |-> "none"], <<>>, <<>>)

\* build_workflow with the alert stage wired to the ticket stage instead of END
build_workflow_alert_then_ticket ==
  [entry |-> "classify",
   conditional |->
     [classify |-> [diagnose |-> "diagnose", end |-> "set_no_action"],
      assess_severity |-> [alert_sre |-> "alert_sre", manage_ticket |-> "manage_ticket"]],
   edges |-> [diagnose |-> "assess_severity", set_no_action |-> END,
              alert_sre |-> "manage_ticket", manage_ticket |-> END]]

\* build_workflow with the no-action stage wired to diagnosis instead of END
build_workflow_no_action_goes_on ==
  [entry |-> "classify",
   conditional |->
     [classify |-> [diagnose |-> "diagnose", end |-> "set_no_action"],
      assess_severity |-> [alert_sre |-> "alert_sre", manage_ticket |-> "manage_ticket"]],
   edges |-> [diagnose |-> "assess_severity", set_no_action |-> "diagnose",
              alert_sre |-> END, manage_ticket |-> END]]

\* build_workflow with classify's "diagnose" branch wired to the severity stage
build_workflow_skip_diagnose ==
  [entry |-> "classify",
   conditional |->
     [classify |-> [diagnose |-> "assess_severity", end |-> "set_no_action"],
      assess_severity |-> [alert_sre |-> "alert_sre", manage_ticket |-> "manage_ticket"]],
   edges |-> [diagnose |-> "assess_severity", set_no_action |-> END,
              alert_sre |-> END, manage_ticket |-> END]]

\* build_workflow with the ticket stage wired to the alert stage instead of END
build_workflow_ticket_then_alert ==
  [entry |-> "classify",
   conditional |->
     [classify |-> [diagnose |-> "diagnose", end |-> "set_no_action"],
      assess_severity |-> [alert_sre |-> "alert_sre", manage_ticket |-> "manage_ticket"]],
   edges |-> [diagnose |-> "assess_severity", set_no_action |-> END,
              alert_sre |-> END, manage_ticket |-> "alert_sre"]]

\* the compiled graph: entry point, conditional edges, plain edges
build_workflow ==
  [entry |-> "classify",
   conditional |->
     [classify |-> [diagnose |-> "diagnose", end |-> "set_no_action"],
      assess_severity |-> [alert_sre |-> "alert_sre", manage_ticket |-> "manage_ticket"]],
   edges |-> [diagnose |-> "assess_severity", set_no_action |-> END,
              alert_sre |-> END, manage_ticket |-> END]]

\* the node the compiled graph runs after `node`, given the merged state
NextNode(node, st) ==
  IF node = "classify"
    THEN build_workflow.conditional.classify[should_continue_after_classify(st)]
  ELSE IF node = "assess_severity"
    THEN build_workflow.conditional.assess_severity[route_by_severity(st)]
  ELSE build_workflow.edges[node]

\* ------------------------------------------------------------------- Init
InitCommon ==
  /\ env \in Envs
  /\ ncalls = 0
  /\ _workflow = None
  /\ builds = 0
  /\ _mcp_client = None
  /\ _mcp_tools = None
  /\ provider_calls = 0
  /\ pc = [t \in Threads |-> "idle"]
  /\ state = [t \in Threads |-> initial_state(<<>>)]
  /\ wf = [t \in Threads |-> None]
  /\ mcp = [t \in Threads |-> [ok |-> FALSE, tools |-> None]]
  /\ trace = [t \in Threads |-> <<>>]
  /\ writes = [t \in Threads |-> [f \in Fields |-> 0]]
  /\ llm_log = [t \in Threads |-> <<>>]
  /\ calls = [t \in Threads |-> <<>>]
  /\ failure = [t \in Threads |-> [stage |-> "", origin |-> ""]]

\* this build: one caller thread, the stub action tools of tools.py
Init ==
  /\ InitCommon
  /\ collaborators = "stub"
  /\ callers = 1

\* ---------------------------------------------------------------- actions
\* the environment variables change (os.environ is process-wide and get_llm
\* reads it on every call)
SetEnv(e) ==
  /\ e # env
  /\ env' = e
  /\ UNCHANGED <<collaborators, callers, ncalls, wfvars, mcpvars, runvars>>

\* process_log_message(log_message): build initial_state
ProcessStart(t, log_message) ==
  /\ t <= callers
  /\ pc[t] \in {"idle", "done", "failed"}
  /\ ncalls < MaxCalls
  /\ ncalls' = ncalls + 1
  /\ pc' = [pc EXCEPT ![t] = "get_workflow"]
  /\ state' = [state EXCEPT ![t] = initial_state(log_message)]
  /\ wf' = [wf EXCEPT ![t] = None]
  /\ mcp' = [mcp EXCEPT ![t] = [ok |-> FALSE, tools |-> None]]
  /\ trace' = [trace EXCEPT ![t] = <<>>]
  /\ writes' = [writes EXCEPT ![t] = [f \in Fields |-> 0]]
  /\ llm_log' = [llm_log EXCEPT ![t] = <<>>]
  /\ calls' = [calls EXCEPT ![t] = <<>>]
  /\ failure' = [failure EXCEPT ![t] = [stage |-> "", origin |-> ""]]
  /\ UNCHANGED <<env, collaborators, callers, wfvars, mcpvars>>

\* get_workflow(): the `_workflow is None` test
GetWorkflow(t) ==
  /\ pc[t] = "get_workflow"
  /\ IF _workflow = None
       THEN /\ pc' = [pc EXCEPT ![t] = "build_workflow"]
            /\ wf' = wf
       ELSE /\ wf' = [wf EXCEPT ![t] = _workflow]
            /\ pc' = [pc EXCEPT ![t] = build_workflow.entry]
  /\ UNCHANGED <<globals, wfvars, mcpvars, state, mcp, trace, writes, llm_log,
                 calls, failure>>

\* get_workflow(): `_workflow = build_workflow(); return _workflow`
BuildWorkflow(t) ==
  /\ pc[t] = "build_workflow"
  /\ builds' = builds + 1
  /\ _workflow' = builds + 1
  /\ wf' = [wf EXCEPT ![t] = builds + 1]
  /\ pc' = [pc EXCEPT ![t] = build_workflow.entry]
  /\ UNCHANGED <<globals, mcpvars, state, mcp, trace, writes, llm_log, calls,
                 failure>>

\* the orchestrator keeping one state record for all runs instead of one per
\* invoke call
Finish_shared_state(t, node, r) ==
  /\ llm_log' = [llm_log EXCEPT ![t] = @ \o r.invocations]
  /\ calls' = [calls EXCEPT ![t] = @ \o r.calls]
  /\ IF r.raised # ""
       THEN /\ pc' = [pc EXCEPT ![t] = "failed"]
            /\ failure' = [failure EXCEPT ![t] = [stage |-> node, origin |-> r.raised]]
            /\ UNCHANGED <<state, writes>>
       ELSE /\ state' = [u \in Threads |-> Merge(state[t], r.update)]
            /\ writes' = [writes EXCEPT ![t] = CountWrites(@, r.update)]
            /\ LET next == NextNode(node, Merge(state[t], r.update))
               IN pc' = [pc EXCEPT ![t] = IF next = END THEN "done" ELSE next]
            /\ UNCHANGED failure

\* the orchestrator's handling of what node `node` handed back: merge the
\* update and follow the edge, or let the exception reach the caller
Finish(t, node, r) ==
  /\ llm_log' = [llm_log EXCEPT ![t] = @ \o r.invocations]
  /\ calls' = [calls EXCEPT ![t] = @ \o r.calls]
  /\ IF r.raised # ""
       THEN /\ pc' = [pc EXCEPT ![t] = "failed"]
            /\ failure' = [failure EXCEPT ![t] = [stage |-> node, origin |-> r.raised]]
            /\ UNCHANGED <<state, writes>>
       ELSE /\ state' = [state EXCEPT ![t] = Merge(@, r.update)]
            /\ writes' = [writes EXCEPT ![t] = CountWrites(@, r.update)]
            /\ LET next == NextNode(node, Merge(state[t], r.update))
               IN pc' = [pc EXCEPT ![t] = IF next = END THEN "done" ELSE next]
            /\ UNCHANGED failure

Classify(t) ==
  /\ pc[t] = "classify"
  /\ trace' = [trace EXCEPT ![t] = Append(@, "classify")]
  /\ \E result \in LogClassificationSchema \cup {"raise"} :
       Finish(t, "classify", classify_log(state[t], get_llm(env), result))
  /\ UNCHANGED <<globals, wfvars, mcpvars, wf, mcp>>

\* diagnose_problem up to get_mcp_tools(), with _get_mcp_tools_async lacking
\* its cache test
DiagnoseStart_ignores_cache(t) ==
  /\ pc[t] = "diagnose"
  /\ trace' = [trace EXCEPT ![t] = Append(@, "diagnose")]
  /\ IF get_llm(env) = "raise"
       THEN /\ pc' = [pc EXCEPT ![t] = "failed"]
            /\ failure' = [failure EXCEPT ![t] = [stage |-> "diagnose", origin |-> "get_llm"]]
            /\ mcp' = mcp
       ELSE /\ failure' = failure
            /\ mcp' = mcp
            /\ pc' = [pc EXCEPT ![t] = "mcp_init"]
  /\ UNCHANGED <<globals, wfvars, mcpvars, state, wf, writes, llm_log, calls>>

\* diagnose_problem up to get_mcp_tools(): get_llm(), then the cache test of
\* _get_mcp_tools_async
DiagnoseStart(t) ==
  /\ pc[t] = "diagnose"
  /\ trace' = [trace EXCEPT ![t] = Append(@, "diagnose")]
  /\ IF get_llm(env) = "raise"
       THEN /\ pc' = [pc EXCEPT ![t] = "failed"]
            /\ failure' = [failure EXCEPT ![t] = [stage |-> "diagnose", origin |-> "get_llm"]]
            /\ mcp' = mcp
       ELSE /\ failure' = failure
            /\ IF _mcp_tools # None
                 THEN /\ mcp' = [mcp EXCEPT ![t] = [ok |-> TRUE, tools |-> _mcp_tools]]
                      /\ pc' = [pc EXCEPT ![t] = "diagnose_invoke"]
                 ELSE /\ mcp' = mcp
                      /\ pc' = [pc EXCEPT ![t] = "mcp_init"]
  /\ UNCHANGED <<globals, wfvars, mcpvars, state, wf, writes, llm_log, calls>>

\* _get_mcp_tools_async: `_mcp_client = await _init_mcp_client()`
McpInit(t) ==
  /\ pc[t] = "mcp_init"
  /\ _mcp_client' = provider_calls + 1
  /\ pc' = [pc EXCEPT ![t] = "mcp_get_tools"]
  /\ UNCHANGED <<globals, wfvars, _mcp_tools, provider_calls, state, wf, mcp, trace,
                 writes, llm_log, calls, failure>>

\* _get_mcp_tools_async: `_mcp_tools = await _mcp_client.get_tools()`, which
\* returns a tool list or raises (the caller's except then goes on without tools)
McpGetTools(t) ==
  /\ pc[t] = "mcp_get_tools"
  /\ provider_calls' = provider_calls + 1
  /\ \E outcome \in {"ok", "raise"} :
       IF outcome = "ok"
         THEN /\ _mcp_tools' = provider_calls + 1
              /\ mcp' = [mcp EXCEPT ![t] = [ok |-> TRUE, tools |-> provider_calls + 1]]
         ELSE /\ _mcp_tools' = _mcp_tools
              /\ mcp' = [mcp EXCEPT ![t] = [ok |-> FALSE, tools |-> None]]
  /\ pc' = [pc EXCEPT ![t] = "diagnose_invoke"]
  /\ UNCHANGED <<globals, wfvars, _mcp_client, state, wf, trace, writes, llm_log,
                 calls, failure>>

\* diagnose_problem from bind_tools on
DiagnoseInvoke(t) ==
  /\ pc[t] = "diagnose_invoke"
  /\ \E bind \in {"ok", "raise"}, result \in DiagnoseReplies :
       LET r == diagnose_problem(state[t], mcp[t], bind, result)
       IN /\ result.tool_calls => r.invocations[1].tools
          /\ Finish(t, "diagnose", r)
  /\ UNCHANGED <<globals, wfvars, mcpvars, wf, mcp, trace>>

AssessSeverity(t) ==
  /\ pc[t] = "assess_severity"
  /\ trace' = [trace EXCEPT ![t] = Append(@, "assess_severity")]
  /\ \E result \in SeverityAssessmentSchema \cup {"raise"} :
       Finish(t, "assess_severity", assess_severity(state[t], get_llm(env), result))
  /\ UNCHANGED <<globals, wfvars, mcpvars, wf, mcp>>

\* what the action tools can do: the stubs of tools.py, or production ones
SendOutcomes == IF collaborators = "stub" THEN {send_slack_alert} ELSE {"ok", "raise"}
CheckOutcomes ==
  IF collaborators = "stub" THEN {check_existing_github_issue}
  ELSE {"True", "False", "raise"}
CreateOutcomes == IF collaborators = "stub" THEN {create_github_issue} ELSE {"ok", "raise"}

AlertSre(t) ==
  /\ pc[t] = "alert_sre"
  /\ trace' = [trace EXCEPT ![t] = Append(@, "alert_sre")]
  /\ \E send \in SendOutcomes : Finish(t, "alert_sre", alert_sre(state[t], send))
  /\ UNCHANGED <<globals, wfvars, mcpvars, wf, mcp>>

ManageGithubTicket(t) ==
  /\ pc[t] = "manage_ticket"
  /\ trace' = [trace EXCEPT ![t] = Append(@, "manage_ticket")]
  /\ \E issue_exists \in CheckOutcomes, create \in CreateOutcomes :
       Finish(t, "manage_ticket", manage_github_ticket(state[t], issue_exists, create))
  /\ UNCHANGED <<globals, wfvars, mcpvars, wf, mcp>>

SetNoAction(t) ==
  /\ pc[t] = "set_no_action"
  /\ trace' = [trace EXCEPT ![t] = Append(@, "set_no_action")]
  /\ Finish(t, "set_no_action", set_no_action(state[t]))
  /\ UNCHANGED <<globals, wfvars, mcpvars, wf, mcp>>

Next ==
  \/ \E e \in Envs : SetEnv(e)
  \/ \E t \in Threads, m \in LogMessages : ProcessStart(t, m)
  \/ \E t \in Threads : GetWorkflow(t)
  \/ \E t \in Threads : BuildWorkflow(t)
  \/ \E t \in Threads : Classify(t)
  \/ \E t \in Threads : DiagnoseStart(t)
  \/ \E t \in Threads : McpInit(t)
  \/ \E t \in Threads : McpGetTools(t)
  \/ \E t \in Threads : DiagnoseInvoke(t)
  \/ \E t \in Threads : AssessSeverity(t)
  \/ \E t \in Threads : AlertSre(t)
  \/ \E t \in Threads : ManageGithubTicket(t)
  \/ \E t \in Threads : SetNoAction(t)

Spec == Init /\ [][Next]_vars

\* production action tools (Slack, GitHub) in place of the stubs: they may
\* raise, and the issue lookup may find an existing issue
InitProd ==
  /\ InitCommon
  /\ collaborators = "production"
  /\ callers = 1

SpecProd == InitProd /\ [][Next]_vars

\* concurrent callers: every thread calls process_log_message, the calls
\* interleave at every step; the environment variables stay as they are and
\* the callers submit a blank and a non-blank message
ConcMessages == {<<>>, <<"E">>}

InitConc ==
  /\ InitCommon
  /\ collaborators = "stub"
  /\ callers = NumThreads

NextConc ==
  \/ \E t \in Threads, m \in ConcMessages : ProcessStart(t, m)
  \/ \E t \in Threads : GetWorkflow(t)
  \/ \E t \in Threads : BuildWorkflow(t)
  \/ \E t \in Threads : Classify(t)
  \/ \E t \in Threads : DiagnoseStart(t)
  \/ \E t \in Threads : McpInit(t)
  \/ \E t \in Threads : McpGetTools(t)
  \/ \E t \in Threads : DiagnoseInvoke(t)
  \/ \E t \in Threads : AssessSeverity(t)
  \/ \E t \in Threads : AlertSre(t)
  \/ \E t \in Threads : ManageGithubTicket(t)
  \/ \E t \in Threads : SetNoAction(t)

SpecConc == InitConc /\ [][NextConc]_vars

\* a step of thread t's process_log_message call
ThreadStep(t) ==
  \/ GetWorkflow(t)
  \/ BuildWorkflow(t)
  \/ Classify(t)
  \/ DiagnoseStart(t)
  \/ McpInit(t)
  \/ McpGetTools(t)
  \/ DiagnoseInvoke(t)
  \/ AssessSeverity(t)
  \/ AlertSre(t)
  \/ ManageGithubTicket(t)
  \/ SetNoAction(t)

\* every external call (model, tool provider, action tool) returns or raises
\* and the calling thread is scheduled: a call that can take a step takes one
SpecFair == Init /\ [][Next]_vars /\ \A t \in Threads : WF_vars(ThreadStep(t))

\* log lines around the length at which manage_github_ticket cuts the title:
\* n characters "E", the last one possibly a tab
Line(n, last) == [i \in 1..n |-> IF i = n THEN last ELSE "E"]
LongMessages ==
  {Line(n, last) : n \in {TitleLen - 1, TitleLen, TitleLen + 1}, last \in {"E", "\t"}}

\* one caller, the stub action tools, long log lines
NextLong ==
  \/ \E e \in Envs : SetEnv(e)
  \/ \E t \in Threads, m \in LongMessages : ProcessStart(t, m)
  \/ \E t \in Threads : GetWorkflow(t)
  \/ \E t \in Threads : BuildWorkflow(t)
  \/ \E t \in Threads : Classify(t)
  \/ \E t \in Threads : DiagnoseStart(t)
  \/ \E t \in Threads : McpInit(t)
  \/ \E t \in Threads : McpGetTools(t)
  \/ \E t \in Threads : DiagnoseInvoke(t)
  \/ \E t \in Threads : AssessSeverity(t)
  \/ \E t \in Threads : AlertSre(t)
  \/ \E t \in Threads : ManageGithubTicket(t)
  \/ \E t \in Threads : SetNoAction(t)

SpecLong == Init /\ [][NextLong]_vars

\* ------------------------------------------------------------- properties
Completed(t) == pc[t] = "done"
Started(t) == pc[t] # "idle"
Last(seq) == seq[Len(seq)]
AllWhitespace(m) == \A i \in 1..Len(m) : m[i] \in Whitespace
Raised(t, stage) == \E i \in 1..Len(llm_log[t]) :
                       llm_log[t][i].stage = stage /\ llm_log[t][i].raised

\* C1: a run on an empty or whitespace-only log_message never invokes the
\* model and never fails; it only passes through the classify and no-action
\* stages and ends with classification = normal and action_taken = none.
C1_BlankIsNormalWithoutModel ==
  \A t \in Threads :
    (Started(t) /\ AllWhitespace(state[t].log_message)) =>
      /\ llm_log[t] = <<>>
      /\ pc[t] \in {"get_workflow", "build_workflow", "classify", "set_no_action", "done"}
      /\ Completed(t) => /\ state[t].classification = "normal"
                         /\ state[t].action_taken = "none"
                         /\ trace[t] = <<"classify", "set_no_action">>

C1_Witness ==
  \E t \in Threads :
    /\ Completed(t)
    /\ Len(state[t].log_message) = MaxLen
    /\ AllWhitespace(state[t].log_message)
    /\ state[t].action_taken = "none"

\* C2: a completed run whose classification is normal has action_taken =
\* none, written by the no-action stage, which is the last stage that ran.
C2_NormalMeansNoAction ==
  \A t \in Threads :
    (Completed(t) /\ state[t].classification = "normal") =>
      /\ state[t].action_taken = "none"
      /\ Last(trace[t]) = "set_no_action"

C2_Witness ==
  \E t \in Threads :
    /\ Completed(t)
    /\ state[t].classification = "normal"
    /\ llm_log[t] # <<>>
    /\ state[t].action_taken = "none"

\* C3: a completed run with severity high ended in the alert stage, which set
\* action_taken; one with severity low ended in the ticket stage, which set
\* action_taken. (The values written are the code's "slack_alert" and
\* "github_ticket".)
C3_SeverityDecidesAction ==
  \A t \in Threads :
    Completed(t) =>
      /\ state[t].severity = "high" =>
           /\ Last(trace[t]) = "alert_sre"
           /\ state[t].action_taken = "slack_alert"
           /\ "manage_ticket" \notin {trace[t][i] : i \in 1..Len(trace[t])}
      /\ state[t].severity = "low" =>
           /\ Last(trace[t]) = "manage_ticket"
           /\ state[t].action_taken = "github_ticket"
           /\ "alert_sre" \notin {trace[t][i] : i \in 1..Len(trace[t])}

C3_Witness ==
  \E t \in Threads :
    /\ Completed(t)
    /\ state[t].severity = "high"
    /\ state[t].action_taken = "slack_alert"
    /\ calls[t] # <<>>

\* C4 (as claimed): a completed run classified error or warning has a
\* non-empty diagnosis and a non-empty severity, whatever the model replied
\* in the diagnosis stage.
C4_DiagnosisAndSeverityNonEmpty ==
  \A t \in Threads :
    (Completed(t) /\ state[t].classification \in {"error", "warning"}) =>
      /\ state[t].diagnosis # <<>>
      /\ state[t].severity # ""

\* C5: once the structured severity call of a run has raised, the run has not
\* failed: severity is low, the run is at the ticket stage or completed, and
\* when completed the ticket stage ran last and set action_taken.
C5_SeverityRaiseDefaultsLow ==
  \A t \in Threads :
    Raised(t, "assess_severity") =>
      /\ state[t].severity = "low"
      /\ failure[t].stage = ""
      /\ pc[t] \in {"manage_ticket", "done"}
      /\ Completed(t) => /\ state[t].action_taken = "github_ticket"
                         /\ Last(trace[t]) = "manage_ticket"

C5_Witness ==
  \E t \in Threads :
    /\ Raised(t, "assess_severity")
    /\ Completed(t)
    /\ state[t].action_taken = "github_ticket"

\* C6 (as claimed): no failure that originates inside the severity stage
\* reaches the caller.
C6_SeverityStageNeverFails ==
  \A t \in Threads : failure[t].stage # "assess_severity"

\* C7: once the model call of the classification stage has raised, the run
\* has failed with that exception: no field of the state was written, no
\* stage but classify ran, no action tool was called, action_taken is unset.
C7_ClassifyFailurePropagates ==
  \A t \in Threads :
    (Raised(t, "classify") \/ failure[t].stage = "classify") =>
      /\ pc[t] = "failed"
      /\ failure[t].stage = "classify"
      /\ Raised(t, "classify") <=> failure[t].origin = "invoke"
      /\ state[t] = initial_state(state[t].log_message)
      /\ trace[t] = <<"classify">>
      /\ calls[t] = <<>>
      /\ Len(llm_log[t]) <= 1

C7_Witness ==
  \E t \in Threads :
    /\ Raised(t, "classify")
    /\ pc[t] = "failed"
    /\ state[t].action_taken = ""

\* C8 (as claimed): a call of process_log_message that has ended either
\* returned a state with action_taken set or propagated a failure raised by
\* the classification stage.
C8_OnlyClassifyFails ==
  \A t \in Threads :
    pc[t] \in {"done", "failed"} =>
      \/ pc[t] = "done" /\ state[t].action_taken # ""
      \/ pc[t] = "failed" /\ failure[t].stage = "classify"

\* a step of thread t that begins a new process_log_message call
NewRun(t) == pc[t] \in {"idle", "done", "failed"} /\ pc'[t] = "get_workflow"

NoRepeat(seq) == \A i, j \in 1..Len(seq) : i # j => seq[i] # seq[j]

\* C9: within a run, classification, diagnosis, severity and action_taken are
\* each written at most once, a field that holds a value keeps it, and no
\* stage runs twice.
C9_WriteOnce ==
  [][\A t \in Threads :
       ~NewRun(t) =>
         /\ state[t].classification # "" => state'[t].classification = state[t].classification
         /\ state[t].diagnosis # <<>> => state'[t].diagnosis = state[t].diagnosis
         /\ state[t].severity # "" => state'[t].severity = state[t].severity
         /\ state[t].action_taken # "" => state'[t].action_taken = state[t].action_taken
         /\ \A f \in Fields \ {"log_message"} : writes'[t][f] <= 1
         /\ NoRepeat(trace'[t])]_vars

C9_Witness ==
  \E t \in Threads :
    /\ Completed(t)
    /\ \A f \in Fields \ {"log_message"} : writes[t][f] = 1
    /\ state[t].diagnosis # <<>>

TerminalNodes == {"alert_sre", "manage_ticket", "set_no_action"}

\* C10: action_taken is written by a terminal stage only, the step that writes
\* it completes the run, a completed run had it written exactly once and ran
\* exactly one terminal stage, last; once it is set nothing of the run changes
\* any more.
C10_ActionTakenWrittenLast ==
  [][\A t \in Threads :
       ~NewRun(t) =>
         /\ state'[t].action_taken # state[t].action_taken =>
              /\ pc[t] \in TerminalNodes
              /\ pc'[t] = "done"
         /\ pc'[t] = "done" =>
              /\ writes'[t].action_taken = 1
              /\ state'[t].action_taken # ""
              /\ Last(trace'[t]) \in TerminalNodes
              /\ Cardinality({i \in 1..Len(trace'[t]) : trace'[t][i] \in TerminalNodes}) = 1
         /\ state[t].action_taken # "" =>
              /\ state'[t] = state[t]
              /\ trace'[t] = trace[t]
              /\ pc'[t] = pc[t]]_vars

C10_Witness ==
  \E t \in Threads :
    /\ Completed(t)
    /\ state[t].action_taken = "github_ticket"
    /\ writes[t].action_taken = 1
    /\ Len(trace[t]) = 4

CallsOf(t, fn) == {i \in 1..Len(calls[t]) : calls[t][i].fn = fn}

\* C11: in the ticket stage the issue lookup is queried with the diagnosis;
\* when it returns true no issue is created and the stage still completes with
\* action_taken set by the ticket stage; an issue is created only after the
\* lookup returned false.
C11_ExistingIssueSuppressesCreate ==
  \A t \in Threads :
    /\ \A i \in CallsOf(t, "check_existing_github_issue") :
         /\ calls[t][i].query = state[t].diagnosis
         /\ calls[t][i].returned = "True" =>
              /\ CallsOf(t, "create_github_issue") = {}
              /\ Completed(t)
              /\ state[t].action_taken = "github_ticket"
    /\ CallsOf(t, "create_github_issue") # {} =>
         \E i \in CallsOf(t, "check_existing_github_issue") :
           /\ calls[t][i].returned = "False"
           /\ \A j \in CallsOf(t, "create_github_issue") : i < j

C11_Witness ==
  \E t \in Threads :
    /\ Completed(t)
    /\ state[t].action_taken = "github_ticket"
    /\ \E i \in CallsOf(t, "check_existing_github_issue") : calls[t][i].returned = "True"
    /\ CallsOf(t, "create_github_issue") = {}

DiagnoseInvocations(t) == {i \in 1..Len(llm_log[t]) : llm_log[t][i].stage = "diagnose"}
Ran(t, node) == node \in {trace[t][j] : j \in 1..Len(trace[t])}

\* the diagnosis stage of the run is over, and not by get_llm() raising
DiagnoseOver(t) ==
  /\ Ran(t, "diagnose")
  /\ pc[t] \notin {"mcp_init", "mcp_get_tools", "diagnose_invoke"}
  /\ failure[t] # [stage |-> "diagnose", origin |-> "get_llm"]

\* what C12 and its amendment share: a failure to acquire or bind the tools
\* never fails the run; the diagnosis stage invokes the model exactly once,
\* without tools when they were not acquired; when that call returns,
\* diagnosis has been written once and the run has moved on to the severity
\* stage.
ToolFailureAbsorbed(t) ==
  /\ failure[t].origin \notin {"get_mcp_tools", "bind_tools"}
  /\ DiagnoseOver(t) => Cardinality(DiagnoseInvocations(t)) = 1
  /\ \A i \in DiagnoseInvocations(t) :
       /\ ~mcp[t].ok => ~llm_log[t][i].tools
       /\ ~llm_log[t][i].raised =>
            /\ writes[t].diagnosis = 1
            /\ (Ran(t, "assess_severity") \/ pc[t] = "assess_severity")

Acquiring(t) == pc[t] \in {"mcp_init", "mcp_get_tools"}

\* C13: with concurrent runs reaching the diagnosis stage, the tool cache is
\* initialised single-flight: at no time are two runs both past the cache
\* test and acquiring the tools, and all runs that hold tools hold the same
\* cached tool set.
C13_SingleFlightToolCache ==
  \A t, u \in Threads :
    t # u =>
      /\ ~(Acquiring(t) /\ Acquiring(u))
      /\ (mcp[t].ok /\ mcp[u].ok) => mcp[t].tools = mcp[u].tools

\* C14: build_workflow is executed at most once over all calls, concurrent
\* first calls included, and every run uses the same definition object.
C14_WorkflowBuiltOnce ==
  /\ builds <= 1
  /\ \A t, u \in Threads : (wf[t] # None /\ wf[u] # None) => wf[t] = wf[u]

\* the states a set of states S can be in after a node whose possible
\* outcomes on state s are Outcomes(s) has returned
After(S, Outcomes(_)) ==
  UNION { {Merge(s, r.update) : r \in {x \in Outcomes(s) : x.raised = ""}} : s \in S }

\* the final states of a run of process_log_message(m) that executes alone,
\* with the stub action tools
SoloFinals(m) ==
  LET classified ==
        After({initial_state(m)},
              LAMBDA s : {classify_log(s, "ChatOpenAI", c) :
                            c \in LogClassificationSchema \cup {"raise"}})
      normal == {s \in classified : NextNode("classify", s) = "set_no_action"}
      diagnosed ==
        After(classified \ normal,
              LAMBDA s : {diagnose_problem(s, [ok |-> o, tools |-> None], b, d) :
                            o \in BOOLEAN, b \in {"ok", "raise"}, d \in DiagnoseReplies})
      assessed ==
        After(diagnosed,
              LAMBDA s : {assess_severity(s, "ChatOpenAI", v) :
                            v \in SeverityAssessmentSchema \cup {"raise"}})
      high == {s \in assessed : NextNode("assess_severity", s) = "alert_sre"}
  IN After(normal, LAMBDA s : {set_no_action(s)})
     \cup After(high, LAMBDA s : {alert_sre(s, send_slack_alert)})
     \cup After(assessed \ high,
                LAMBDA s : {manage_github_ticket(s, check_existing_github_issue,
                                                 create_github_issue)})

SoloFinalsOf == [m \in LogMessages |-> SoloFinals(m)]

RunVarsOf(u) ==
  <<pc[u], state[u], wf[u], mcp[u], trace[u], writes[u], llm_log[u], calls[u],
    failure[u]>>

\* C15: concurrent runs are independent: a step of one run leaves every other
\* run's state record (and the rest of its bookkeeping) untouched, a run's
\* log_message is never rewritten, and a run that completes ends in a state
\* that the same message can end in when the run executes alone.
C15_RunsIndependent ==
  [][\A t \in Threads :
       /\ pc'[t] # pc[t] => \A u \in Threads \ {t} : RunVarsOf(u)' = RunVarsOf(u)
       /\ state'[t] # state[t] => pc'[t] # pc[t]
       /\ (pc[t] \notin {"idle", "done", "failed"}) =>
            state'[t].log_message = state[t].log_message
       /\ (pc[t] # "done" /\ pc'[t] = "done") =>
            state'[t] \in SoloFinalsOf[state'[t].log_message]]_vars

\* two runs overlapped (both built the workflow) and completed with different
\* outcomes
C15_Witness ==
  \E t, u \in Threads :
    /\ builds = 2
    /\ Completed(t) /\ Completed(u)
    /\ state[t].log_message # state[u].log_message
    /\ state[t].action_taken = "none"
    /\ state[u].action_taken = "slack_alert"

\* C16 as stated: in every completed run action_taken is one of alert,
\* ticket, none.
C16_ActionTakenAlertTicketNone ==
  \A t \in Threads :
    Completed(t) => state[t].action_taken \in {"alert", "ticket", "none"}

\* C16: in every completed run action_taken is one of slack_alert,
\* github_ticket, none: the alert stage writes slack_alert, the ticket stage
\* github_ticket, the no-action stage none.
C16_ActionTakenValues ==
  \A t \in Threads :
    Completed(t) =>
      /\ state[t].action_taken \in {"slack_alert", "github_ticket", "none"}
      /\ Last(trace[t]) = "alert_sre" => state[t].action_taken = "slack_alert"
      /\ Last(trace[t]) = "manage_ticket" => state[t].action_taken = "github_ticket"
      /\ Last(trace[t]) = "set_no_action" => state[t].action_taken = "none"

C16_Witness ==
  \E t \in Threads :
    /\ Completed(t)
    /\ Last(trace[t]) = "alert_sre"
    /\ state[t].action_taken = "slack_alert"

IsPrefix(p, q) == Len(p) <= Len(q) /\ p = SubSeq(q, 1, Len(p))

StageSequences ==
  { <<"classify", "set_no_action">>,
    <<"classify", "diagnose", "assess_severity", "alert_sre">>,
    <<"classify", "diagnose", "assess_severity", "manage_ticket">> }

Reached(t, node) == pc[t] = node \/ Ran(t, node)

\* C17: the stages a run has executed are always an initial part of classify,
\* no-action / classify, diagnose, severity, alert / classify, diagnose,
\* severity, ticket, and a completed run executed one of the three in full;
\* once classify has returned, diagnose is taken iff classification is error
\* or warning and no-action otherwise; once severity has returned, alert is
\* taken iff severity = high and ticket otherwise; the router sends a state
\* without severity to ticket.
C17_OnlyThreeStageSequences ==
  /\ route_by_severity(initial_state(<<>>)) = "manage_ticket"
  /\ \A t \in Threads :
       /\ \E q \in StageSequences : IsPrefix(trace[t], q)
       /\ Completed(t) => trace[t] \in StageSequences
       /\ writes[t].classification > 0 =>
            /\ Reached(t, "diagnose") <=> state[t].classification \in {"error", "warning"}
            /\ Reached(t, "set_no_action") <=> state[t].classification \notin {"error", "warning"}
       /\ writes[t].classification = 0 =>
            ~Reached(t, "diagnose") /\ ~Reached(t, "set_no_action")
       /\ writes[t].severity > 0 =>
            /\ Reached(t, "alert_sre") <=> state[t].severity = "high"
            /\ Reached(t, "manage_ticket") <=> state[t].severity # "high"
       /\ writes[t].severity = 0 =>
            ~Reached(t, "alert_sre") /\ ~Reached(t, "manage_ticket")

C17_Witness ==
  \E t \in Threads :
    /\ Completed(t)
    /\ state[t].classification = "warning"
    /\ trace[t] = <<"classify", "diagnose", "assess_severity", "manage_ticket">>

\* C18: in every state of a run, diagnosis has been written (or holds a text)
\* only if classification was written before and is error or warning, and
\* severity has been written (or holds a value) only if the diagnosis stage
\* wrote diagnosis before; while classification is not error or warning,
\* diagnosis and severity are unset and unwritten, to the end of the run.
C18_FieldsSetInOrder ==
  \A t \in Threads :
    /\ (writes[t].diagnosis > 0 \/ state[t].diagnosis # <<>>) =>
         /\ writes[t].classification > 0
         /\ writes[t].diagnosis > 0
         /\ state[t].classification \in {"error", "warning"}
         /\ Ran(t, "diagnose")
    /\ (writes[t].severity > 0 \/ state[t].severity # "") =>
         /\ writes[t].diagnosis > 0
         /\ writes[t].severity > 0
         /\ Ran(t, "assess_severity")
    /\ state[t].classification \notin {"error", "warning"} =>
         /\ state[t].diagnosis = <<>> /\ writes[t].diagnosis = 0
         /\ state[t].severity = "" /\ writes[t].severity = 0

C18_Witness ==
  \E t \in Threads :
    /\ pc[t] = "manage_ticket"
    /\ state[t].classification = "error"
    /\ state[t].diagnosis # <<>>
    /\ state[t].severity = "low"

RaisedCalls(t) == {i \in 1..Len(calls[t]) : calls[t][i].raised}

\* C19: when an action collaborator call of a run has failed (send_slack_alert
\* in the alert stage; check_existing_github_issue or create_github_issue in
\* the ticket stage), it was the run's last call, the run has failed in that
\* stage with that call's failure and action_taken is unset and unwritten;
\* hence whenever the alert or ticket stage has written action_taken, every
\* collaborator call of the run returned, and at least one was made.
C19_CollaboratorFailurePropagates ==
  \A t \in Threads :
    /\ \A i \in RaisedCalls(t) :
         /\ i = Len(calls[t])
         /\ pc[t] = "failed"
         /\ failure[t].origin = calls[t][i].fn
         /\ failure[t].stage = Last(trace[t])
         /\ failure[t].stage \in {"alert_sre", "manage_ticket"}
         /\ state[t].action_taken = ""
         /\ writes[t].action_taken = 0
    /\ state[t].action_taken \in {"slack_alert", "github_ticket"} =>
         /\ RaisedCalls(t) = {}
         /\ calls[t] # <<>>

C19_Witness ==
  \E t \in Threads :
    /\ pc[t] = "failed"
    /\ failure[t] = [stage |-> "manage_ticket", origin |-> "create_github_issue"]
    /\ Len(calls[t]) = 2
    /\ state[t].action_taken = ""

\* C20: a run in which the alert stage has run made exactly one
\* send_slack_alert call and no other action-tool call; the call's message is
\* "High severity issue detected - " followed by the run's diagnosis, its
\* severity is the run's severity, high, and its diagnosis the run's
\* diagnosis; the call returned and the stage set action_taken to
\* slack_alert, completing the run. A run whose alert stage has not run made
\* no send_slack_alert call.
C20_AlertCallsSendOnce ==
  \A t \in Threads :
    IF Ran(t, "alert_sre")
      THEN /\ calls[t] = << [fn |-> "send_slack_alert",
                             message |-> <<"High severity issue detected - ">>
                                           \o state[t].diagnosis,
                             severity |-> "high",
                             diagnosis |-> state[t].diagnosis,
                             raised |-> FALSE] >>
           /\ state[t].severity = "high"
           /\ state[t].action_taken = "slack_alert"
           /\ Completed(t)
      ELSE CallsOf(t, "send_slack_alert") = {}

C20_Witness ==
  \E t \in Threads :
    /\ Ran(t, "alert_sre")
    /\ state[t].diagnosis = <<"d">>
    /\ Len(calls[t]) = 1
    /\ calls[t][1].message = <<"High severity issue detected - ", "d">>

\* the field a run may write while its call stands at pc value p
OwnField(p) ==
  IF p = "classify" THEN {"classification"}
  ELSE IF p \in {"diagnose", "mcp_init", "mcp_get_tools", "diagnose_invoke"}
    THEN {"diagnosis"}
  ELSE IF p = "assess_severity" THEN {"severity"}
  ELSE IF p \in {"alert_sre", "manage_ticket", "set_no_action"} THEN {"action_taken"}
  ELSE {}

\* C21: within a run log_message is never modified, and a step of a stage
\* changes no field but the stage's own: classify only classification,
\* diagnose only diagnosis, severity only severity, each terminal stage only
\* action_taken; outside the stages no field changes.
C21_StagesWriteOwnField ==
  [][\A t \in Threads :
       ~NewRun(t) =>
         /\ state'[t].log_message = state[t].log_message
         /\ \A f \in DOMAIN state[t] :
              state'[t][f] # state[t][f] => f \in OwnField(pc[t])
         /\ \A f \in Fields :
              writes'[t][f] # writes[t][f] => f \in OwnField(pc[t])]_vars

C21_Witness ==
  \E t \in Threads :
    /\ Completed(t)
    /\ Len(state[t].log_message) = MaxLen
    /\ Head(state[t].log_message) \in Whitespace
    /\ state[t].classification = "error"
    /\ state[t].diagnosis # <<>>
    /\ state[t].severity = "high"
    /\ state[t].action_taken = "slack_alert"

Min(a, b) == IF a < b THEN a ELSE b

\* sub occurs in s as a contiguous part
Contains(s, sub) ==
  \E k \in 0..(Len(s) - Len(sub)) : SubSeq(s, k + 1, k + Len(sub)) = sub

BodyHasLogAndDiagnosis(t, c) ==
  /\ Contains(c.body, <<"## Log Message\n">> \o state[t].log_message)
  /\ Contains(c.body, <<"\n\n## Diagnosis\n">> \o state[t].diagnosis)
  /\ Len(c.body) = Len(state[t].log_message) + Len(state[t].diagnosis) + 2

\* C22 as stated: the title of every created issue is exactly the first 50
\* characters of the log message (the whole message when it is shorter), and
\* the body contains the raw log message and the diagnosis.
C22_TitleIsFirst50 ==
  \A t \in Threads :
    \A i \in CallsOf(t, "create_github_issue") :
      /\ Len(calls[t][i].title) = Min(Len(state[t].log_message), 50)
      /\ \A k \in 1..Len(calls[t][i].title) :
           calls[t][i].title[k] = state[t].log_message[k]
      /\ BodyHasLogAndDiagnosis(t, calls[t][i])

\* C22: the title of every created issue is "[Auto] ", then the first 50
\* characters of the log message (the whole message when it is shorter),
\* then "..."; the body contains the raw log message and the diagnosis.
C22_TitleIsAutoFirst50Dots ==
  \A t \in Threads :
    \A i \in CallsOf(t, "create_github_issue") :
      LET title == calls[t][i].title
          n == Min(Len(state[t].log_message), 50)
      IN /\ Len(title) = n + 2
         /\ title[1] = "[Auto] "
         /\ \A k \in 1..n : title[k + 1] = state[t].log_message[k]
         /\ title[n + 2] = "..."
         /\ BodyHasLogAndDiagnosis(t, calls[t][i])

C22_Witness ==
  \E t \in Threads :
    \E i \in CallsOf(t, "create_github_issue") :
      /\ Len(state[t].log_message) = 51
      /\ state[t].log_message[51] = "\t"
      /\ Len(calls[t][i].title) = 52
      /\ state[t].diagnosis # <<>>

Running(t) == pc[t] \notin {"idle", "done", "failed"}

\* C23: when every external call returns or raises, every run terminates: a
\* started call reaches End or a propagated failure; a run never executes
\* more than four stages, a run that reaches End executed two (classify,
\* no-action) when the classification is not error or warning and four
\* (classify, diagnose, severity, one action stage) otherwise.
C23_EveryRunTerminates ==
  /\ [](\A t \in Threads :
          /\ Len(trace[t]) <= 4
          /\ NoRepeat(trace[t])
          /\ Completed(t) =>
               Len(trace[t]) =
                 IF state[t].classification \in {"error", "warning"} THEN 4 ELSE 2)
  /\ \A t \in Threads : Running(t) ~> (pc[t] \in {"done", "failed"})

C23_Witness ==
  \E t \in Threads :
    /\ Completed(t)
    /\ Len(trace[t]) = 4
    /\ ncalls = MaxCalls

\* C24: within one run send_slack_alert is called at most once and only with
\* severity = high; check_existing_github_issue and create_github_issue are
\* each called at most once, the creation only after the lookup, and only
\* with a severity that is not high; no run calls both send_slack_alert and
\* an issue-tracker tool; a run with action_taken = none made no action-tool
\* call at all.
C24_ActionsExclusiveAndBounded ==
  \A t \in Threads :
    LET sends == CallsOf(t, "send_slack_alert")
        checks == CallsOf(t, "check_existing_github_issue")
        creates == CallsOf(t, "create_github_issue")
    IN /\ Cardinality(sends) <= 1
       /\ Cardinality(checks) <= 1
       /\ Cardinality(creates) <= 1
       /\ sends # {} => state[t].severity = "high"
       /\ (checks # {} \/ creates # {}) => state[t].severity = "low"
       /\ creates # {} => checks # {}
       /\ ~(sends # {} /\ (checks # {} \/ creates # {}))
       /\ Len(calls[t]) = Cardinality(sends) + Cardinality(checks) + Cardinality(creates)
       /\ state[t].action_taken = "none" => calls[t] = <<>>

C24_Witness ==
  \E t \in Threads :
    /\ Completed(t)
    /\ state[t].severity = "low"
    /\ CallsOf(t, "check_existing_github_issue") = {1}
    /\ CallsOf(t, "create_github_issue") = {2}
    /\ ncalls = MaxCalls

\* C25: with one caller the tool cache is monotone: once _mcp_tools is set,
\* it, the client and the number of provider calls never change again, and a
\* diagnosis stage that finds it set takes the cached list without contacting
\* the provider; a diagnosis stage that finds it unset attempts acquisition;
\* an acquisition that fails leaves _mcp_tools unset, one that succeeds caches
\* the list it hands to the stage.
C25_ToolCacheMonotone ==
  [][/\ _mcp_tools # None => UNCHANGED mcpvars
     /\ \A t \in Threads :
          /\ (pc[t] = "diagnose" /\ pc'[t] \notin {"diagnose", "failed"}) =>
               IF _mcp_tools # None
                 THEN /\ pc'[t] = "diagnose_invoke"
                      /\ mcp'[t] = [ok |-> TRUE, tools |-> _mcp_tools]
                 ELSE pc'[t] = "mcp_init"
          /\ (pc[t] = "mcp_get_tools" /\ pc'[t] # pc[t]) =>
               /\ provider_calls' = provider_calls + 1
               /\ pc'[t] = "diagnose_invoke"
               /\ mcp'[t].ok <=> _mcp_tools' # None
               /\ mcp'[t].ok => mcp'[t].tools = _mcp_tools']_vars

\* a first acquisition failed, a later run acquired again and now holds the
\* cached list
C25_Witness ==
  \E t \in Threads :
    /\ provider_calls = 2
    /\ _mcp_tools = 2
    /\ pc[t] = "diagnose_invoke"
    /\ mcp[t] = [ok |-> TRUE, tools |-> 2]

====
